---- MODULE Spec2Model ----
(***************************************************************************)
(* Large-audio chunked transcription of pocket-matip:                      *)
(*   src/lib/audio-utils.ts        needsSplitting, splitAudioFile,         *)
(*                                 audioBufferToWav, combineTranscriptions *)
(*   src/components/RecordTab.tsx  transcribeChunk, processAudio           *)
(*   src/unnamed/part_004          the route POST /api/transcribe          *)
(*                                                                         *)
(* Units.  Sizes are bytes.  Every time value of the model (the decoded    *)
(* duration, a chunk's startTime and duration) is a count of half seconds, *)
(* so that durations that are not whole seconds exist; the model's decoded *)
(* durations are the multiples of 0.5 s.  Sample positions are frames.     *)
(*                                                                         *)
(* Numbers of the code are IEEE doubles.  On the inputs of this model all  *)
(* products, differences, Math.ceil and the sample positions are exact in  *)
(* doubles (every operand is a multiple of 0.5 below 2^53).  The one       *)
(* inexact step is the pair of divisions of audio-utils.ts:57-58; it is    *)
(* modelled with its rounding in chunkDuration below.                      *)
(***************************************************************************)
EXTENDS Integers, Sequences, FiniteSets, TLC

VARIABLES
    file,            \* the input Blob/File and what decodeAudioData makes of it
    pc,              \* position of the processAudio / splitAudioFile call
    isProcessing,    \* RecordTab state isProcessing
    processingText,  \* RecordTab state processingText (last message set)
    minutesData,     \* RecordTab state minutesData: "null" or "set"
    alerts,          \* number of alert('AI処理中にエラーが発生しました') shown
    splitCalls,      \* number of calls of splitAudioFile
    directCalls,     \* number of transcribeChunk(audioBlob, 'recording.webm') calls
    chunks,          \* const chunks: the AudioChunk[] splitAudioFile returned
    request,         \* per chunk index: state of its transcribeChunk request
    transcriptions,  \* const transcriptions: string[]
    slotWrites,      \* per slot of transcriptions: number of assignments so far
    completedCount,  \* let completedCount
    batchStart,      \* loop variable batchStart of the batch being awaited
    transcript,      \* let transcript: [assigned, text]
    chatRequests,    \* number of POST /api/chat requests sent
    order,           \* history: "none", or whether the responses so far arrived in
                     \* "reverse" order of chunk index within each batch, or in "other"
    reported,        \* history: the counts the progress messages reported, in order
    issued,          \* history: per chunk index, the number of requests sent for it
    error,           \* the Error thrown last (logged by console.error when caught)
    alertText,       \* the message of the alert shown last
    again,           \* the AudioChunk[] a second splitAudioFile call returned
    audioContext,    \* the AudioContexts of splitAudioFile: [created, closed]
    now,             \* server: the clock Date.now() reads, in milliseconds
    handler,         \* server: per request, the state of its POST handler
    tmpFiles,        \* server: the files of tmpdir(), path -> content
    buffer,          \* encoder: the AudioBuffer handed to audioBufferToWav
    wav,             \* encoder: the bytes of the Blob it returned, <<>> before
    isRecording,     \* RecordTab state isRecording
    isPaused,        \* RecordTab state isPaused
    pending,         \* number of startRecording calls awaiting getUserMedia
    recorders,       \* the MediaRecorders created so far: [state, onstop]
    mediaRecorderRef,    \* mediaRecorderRef.current: index in recorders, 0 for null
    intervals,       \* the intervals created so far by setInterval: scheduled or not
    timerIntervalRef,    \* timerIntervalRef.current: index in intervals, 0 for null
    fileDialog,      \* the file chooser of the audio file input is open
    uploads,         \* number of times the file chooser was opened
    running          \* number of processAudio calls that have not finished

\* the variables of the browser side (RecordTab, audio-utils)
clientVars == <<file, pc, isProcessing, processingText, minutesData, alerts, splitCalls,
                directCalls, chunks, request, transcriptions, slotWrites,
                completedCount,
                batchStart, transcript, chatRequests, order, reported, issued,
                error, alertText, again, audioContext>>

\* the variables of the route POST /api/transcribe
serverVars == <<now, handler, tmpFiles>>

\* the variables of audioBufferToWav taken on its own
wavVars == <<buffer, wav>>

\* the variables of the recording controls of RecordTab
recorderVars == <<isRecording, isPaused, pending, recorders, mediaRecorderRef,
                  intervals, timerIntervalRef, fileDialog, uploads, running>>

\* what no step of processAudio and splitAudioFile taken on their own changes
besides == <<serverVars, wavVars, recorderVars>>

vars == <<clientVars, serverVars, wavVars, recorderVars>>

(***************************************************************************)
(* Program constants.                                                      *)
(***************************************************************************)
WHISPER_MAX_SIZE == 25 * 1024 * 1024
CHUNK_TARGET_SIZE == 20 * 1024 * 1024
minChunkDuration == 30
maxChunkDuration == 600
headerLength == 44
bytesPerSample == 2
BATCH_SIZE == 10

(***************************************************************************)
(* Bounds of the model.                                                    *)
(***************************************************************************)
\* SpecPlan: decoded durations 0, 0.5, ..., MaxPlanHalves / 2 seconds.
MaxPlanHalves == 1600
\* Spec: decoded durations are 0 .. MaxDurSteps steps of DurStepHalves / 2 seconds.
MaxDurSteps == 3
DurStepHalves == 201
\* channel counts 1 .. MaxChannels
MaxChannels == 2
\* SpecWav: samples are multiples of 2^-(15 + ExtraBits), that is 2^ExtraBits
\* sample values per step of the 16-bit scale; buffers of 1 .. MaxFrames frames
ExtraBits == 2
MaxFrames == 3
\* SpecServer: concurrent requests 1 .. MaxRequests, clock 0 .. MaxClock ms
MaxRequests == 2
MaxClock == 1

format == 1
bitDepth == 16

Min(a, b) == IF a < b THEN a ELSE b
Max(a, b) == IF a > b THEN a ELSE b

RECURSIVE BitLen(_)
\* number of binary digits of x > 0
BitLen(x) == IF x = 0 THEN 0 ELSE 1 + BitLen(x \div 2)

RECURSIVE Pow2(_)
Pow2(k) == IF k = 0 THEN 1 ELSE 2 * Pow2(k - 1)

RECURSIVE MulDiv(_, _, _)
\* <<q, r>> with a * b = q * c + r and 0 <= r < c, without forming a * b
\* (the result for b \div 2 is bound as a value, so it is computed once)
MulDiv(a, b, c) ==
    IF b = 0 THEN <<0, 0>>
    ELSE LET Step(h, t) == <<2 * h[1] + (t \div c), t % c>>
         IN  CHOOSE x \in {Step(h, 2 * h[2] + (b % 2) * a) :
                               h \in {MulDiv(a, b \div 2, c)}} : TRUE

RECURSIVE ShiftRem(_, _, _, _)
\* long division of (r / d) by e more binary digits: <<remainder, last digit>>
ShiftRem(r, bit, e, d) ==
    IF e = 0 THEN <<r, bit>>
    ELSE IF 2 * r >= d THEN ShiftRem(2 * r - d, 1, e - 1, d)
                       ELSE ShiftRem(2 * r, 0, e - 1, d)

(***************************************************************************)
(* audio-utils.ts:57  bytesPerSecond = file.size / duration                *)
(* The double nearest to size / (halves / 2) = (2 * size) / halves, as     *)
(* <<rounded up, rho, L>>: whether the rounding went up, by rho / halves   *)
(* units in the last place, and the number L of integer binary digits.     *)
(* The 53-digit significand is floor or ceiling of (2*size) * 2^(53-L) /   *)
(* halves, ties to even.                                                   *)
(***************************************************************************)
bytesPerSecond(size, halves) ==
    LET N   == 2 * size
        L   == BitLen(N \div halves)
        sr  == ShiftRem(N % halves, (N \div halves) % 2, 53 - L, halves)
        up  == 2 * sr[1] > halves \/ (2 * sr[1] = halves /\ sr[2] = 1)
    IN  <<up, halves - sr[1], L>>

\* x = CHUNK_TARGET_SIZE * duration / size is exactly the integer n: whether the
\* double CHUNK_TARGET_SIZE / bytesPerSecond is nevertheless below n.  It is when
\* bytesPerSecond was rounded up by enough that the double nearest to the
\* quotient is the one below n (half the spacing of the doubles below n is
\* 2^(k-53), or 2^(k-54) when n = 2^k).
QuotientBelow(size, halves, n) ==
    LET b == bytesPerSecond(size, halves)
        k == BitLen(n) - 1
        j == b[3] - k + (IF n = Pow2(k) THEN 1 ELSE 0)
    IN  b[1] /\ n * b[2] > (2 * size) \div Pow2(j)

\* variant: the WAV header taken off the target of line 58
chunkDuration_header(size, halves) ==
    IF halves = 0 THEN 0
    ELSE MulDiv(CHUNK_TARGET_SIZE - headerLength, halves, 2 * size)[1]

\* variant: the limit WHISPER_MAX_SIZE as the target of line 58
chunkDuration_limit(size, halves) ==
    IF halves = 0 THEN 0 ELSE MulDiv(WHISPER_MAX_SIZE, halves, 2 * size)[1]

\* audio-utils.ts:58 with 57: Math.floor(CHUNK_TARGET_SIZE / bytesPerSecond).
\* x = CHUNK_TARGET_SIZE * duration / size exactly.  When x is no integer the
\* two roundings cannot carry the quotient across an integer that the clamp
\* of line 63 distinguishes (file.size < 2^30: x is at least 2^-31 away from
\* it), so the result is floor(x).  When x is an integer n the result is n, or
\* n - 1 when the quotient is rounded below n.
\* duration = 0: size / 0 = Infinity and CHUNK_TARGET_SIZE / Infinity = 0.
chunkDuration(size, halves) ==
    IF halves = 0 THEN 0
    ELSE LET x == MulDiv(CHUNK_TARGET_SIZE, halves, 2 * size)
             n == x[1]
         IN  IF x[2] # 0 \/ n <= minChunkDuration \/ n > maxChunkDuration
             THEN n
             ELSE IF QuotientBelow(size, halves, n) THEN n - 1 ELSE n

\* variant: the upper clamp Math.min(maxChunkDuration, .) left out
finalChunkDuration_nomax(size, halves) ==
    Max(minChunkDuration, chunkDuration(size, halves))

\* variant: Math.ceil in place of Math.floor in line 58
finalChunkDuration_ceil(size, halves) ==
    LET x == MulDiv(CHUNK_TARGET_SIZE, halves, 2 * size)
    IN  Max(minChunkDuration,
            Min(maxChunkDuration, IF x[2] = 0 THEN x[1] ELSE x[1] + 1))

\* audio-utils.ts:63 (seconds)
finalChunkDuration(size, halves) ==
    Max(minChunkDuration, Min(maxChunkDuration, chunkDuration(size, halves)))

\* variant: Math.floor(duration / finalChunkDuration) + 1 in line 65
numberOfChunks_plus1(size, halves) ==
    halves \div (2 * finalChunkDuration(size, halves)) + 1

\* variant: Math.floor in place of Math.ceil in line 65
numberOfChunks_floor(size, halves) ==
    halves \div (2 * finalChunkDuration(size, halves))

\* audio-utils.ts:65  Math.ceil(duration / finalChunkDuration)
numberOfChunks(size, halves) ==
    (halves + 2 * finalChunkDuration(size, halves) - 1)
        \div (2 * finalChunkDuration(size, halves))

\* audio-utils.ts:122-171: the Blob audioBufferToWav builds from a buffer of
\* `length` frames: its byte size (totalLength) and the header fields.
audioBufferToWav(length, channels, rate) ==
    LET blockAlign == channels * bytesPerSample
        dataLength == length * blockAlign
    IN  [size |-> headerLength + dataLength, frames |-> length,
         numberOfChannels |-> channels, sampleRate |-> rate,
         blockAlign |-> blockAlign, dataLength |-> dataLength]

\* audio-utils.ts:71-108: the AudioChunk of loop index i (times in half seconds)
AudioChunk(f, i) ==
    LET fcd         == finalChunkDuration(f.size, f.durationHalves)
        startTime   == 2 * i * fcd
        endTime     == Min(2 * (i + 1) * fcd, f.durationHalves)
        startSample == (startTime * f.sampleRate) \div 2
        endSample   == (endTime * f.sampleRate) \div 2
    IN  [index |-> i, startTime |-> startTime, duration |-> endTime - startTime,
         startSample |-> startSample, endSample |-> endSample,
         blob |-> audioBufferToWav(endSample - startSample, f.numberOfChannels,
                                   f.sampleRate)]

\* variant: the chunk list is kept outside the function and shared by its calls
splitAudioFile_shared(f) ==
    chunks \o [p \in 1 .. numberOfChunks(f.size, f.durationHalves) |->
                  AudioChunk(f, p - 1)]

\* audio-utils.ts:51-116: the chunk list splitAudioFile returns for a decoded file
splitAudioFile(f) ==
    [p \in 1 .. numberOfChunks(f.size, f.durationHalves) |-> AudioChunk(f, p - 1)]


\* variant: >= in place of > in line 22
needsSplitting_geq(size) == size >= WHISPER_MAX_SIZE

\* audio-utils.ts:21-23
needsSplitting(size) == size > WHISPER_MAX_SIZE

(***************************************************************************)
(* Strings are sequences of one-character strings.                         *)
(***************************************************************************)
IsSpace(c) == c = " "

RECURSIVE TrimStart(_)
TrimStart(s) == IF s # <<>> /\ IsSpace(Head(s)) THEN TrimStart(Tail(s)) ELSE s

RECURSIVE TrimEnd(_)
TrimEnd(s) ==
    IF s # <<>> /\ IsSpace(s[Len(s)]) THEN TrimEnd(SubSeq(s, 1, Len(s) - 1)) ELSE s

\* String.prototype.trim
Trim(s) == TrimEnd(TrimStart(s))

RECURSIVE Join(_, _)
\* Array.prototype.join(sep)
Join(ss, sep) ==
    IF ss = <<>> THEN <<>>
    ELSE IF Len(ss) = 1 THEN ss[1]
    ELSE ss[1] \o sep \o Join(Tail(ss), sep)

\* audio-utils.ts:185-187
combineTranscriptions(ts) == Trim(Join(ts, <<" ">>))

(***************************************************************************)
(* The remote transcription service.  The text it recognises in chunk i is *)
(* a word naming the chunk, with the stray blanks its answers may carry.   *)
(***************************************************************************)
Words == <<"a", "b", "c", "d", "e", "f", "g", "h", "i", "j", "k", "l", "m",
           "n", "o", "p", "q", "r", "s", "t", "u", "v", "w", "x", "y", "z">>

Word(i) == Words[(i % Len(Words)) + 1]

\* data.text of the response to chunk_<i>.wav (RecordTab.tsx:198-199)
ChunkText(i) ==
    CASE i % 3 = 0 -> <<Word(i)>>
      [] i % 3 = 1 -> <<" ", Word(i)>>
      [] OTHER     -> <<Word(i), " ">>

\* data.text of the response to the whole recording.webm
DirectText == <<"w", "h", "o", "l", "e">>

(***************************************************************************)
(* processAudio, RecordTab.tsx:203-357                                     *)
(***************************************************************************)
Message(m, done, total) == [msg |-> m, done |-> done, total |-> total]

\* RecordTab.tsx:230, 238  `文字起こし中... ${completedCount}/${chunks.length} 完了`
Progress(done, total) == Message("transcribing", done, total)

\* variant: the batch takes every remaining chunk
batchEnd_rest(bStart, n) == n

\* RecordTab.tsx:227
batchEnd(bStart, n) == Min(bStart + BATCH_SIZE, n)

\* variant: chunks.slice(0, batchEnd)
Batch_fromStart(bStart, n) == 0 .. batchEnd(bStart, n) - 1

\* RecordTab.tsx:228  the indexes of chunks.slice(batchStart, batchEnd)
Batch(bStart, n) == bStart .. batchEnd(bStart, n) - 1

\* variant: the index within the batch used as the slot
globalIndex_local(bStart, batchIndex) == batchIndex

\* RecordTab.tsx:234
globalIndex(bStart, batchIndex) == bStart + batchIndex

\* variant: the count taken from the index of the chunk that completed
Completed_index(count, slot) == slot + 1

\* RecordTab.tsx:237  completedCount++ in the callback of the chunk of `slot`
Completed(count, slot) == count + 1

\* the batch a request was issued in: the closure's batchStart (multiples of
\* BATCH_SIZE, RecordTab.tsx:226) and its position batchIndex in the slice
ClosureBatchStart(c) == (c \div BATCH_SIZE) * BATCH_SIZE

\* variant: transcriptions.push(result), results kept in arrival order
StoreResult_push(ts, slot, result) ==
    LET free == {p \in 1 .. Len(ts) : ts[p] = <<>>}
    IN  IF free = {} THEN ts
        ELSE [ts EXCEPT ![CHOOSE p \in free : \A o \in free : p <= o] = result]

\* RecordTab.tsx:236  transcriptions[globalIndex] = result
StoreResult(ts, slot, result) ==
    IF slot + 1 \in 1 .. Len(ts) THEN [ts EXCEPT ![slot + 1] = result] ELSE ts

\* variant: Promise.allSettled
PromiseAll_allSettled(states) ==
    IF "inflight" \in states THEN "pending" ELSE "fulfilled"

\* variant: Promise.any
PromiseAll_any(states) ==
    IF "ok" \in states THEN "fulfilled"
    ELSE IF "inflight" \in states THEN "pending" ELSE "rejected"

\* RecordTab.tsx:242  Promise.all over the promises of one batch: rejected as
\* soon as one of them is, fulfilled once all of them are
PromiseAll(states) ==
    IF "failed" \in states THEN "rejected"
    ELSE IF "inflight" \in states THEN "pending" ELSE "fulfilled"

\* the request states of the batch starting at bStart, of n chunks
BatchStates(req, bStart, n) ==
    {req[c] : c \in {d \in DOMAIN req : bStart <= d /\ d < batchEnd(bStart, n)}}

(***************************************************************************)
(* Inputs.  A file is its byte size and what decodeAudioData returns for   *)
(* it: whether it decodes, and the AudioBuffer's duration (half seconds),  *)
(* sampleRate and numberOfChannels; its length is duration * sampleRate,  *)
(* or, in SpecSeam, the field length.                                      *)
(***************************************************************************)
MiB == 1024 * 1024

SampleRates == {16000, 44100}

DecodedFiles(sizes, halves, rates, channels) ==
    [size : sizes, durationHalves : halves, sampleRate : rates,
     numberOfChannels : channels, decodable : {TRUE}]

CorruptFiles(sizes) ==
    [size : sizes, durationHalves : {0}, sampleRate : {16000},
     numberOfChannels : {1}, decodable : {FALSE}]

\* SpecPlan: files above the threshold, the only ones splitAudioFile is called on
PlanSizes == {WHISPER_MAX_SIZE + 1, 26 * MiB, 40 * MiB, 150 * MiB, 400 * MiB}

PlanFiles ==
    DecodedFiles(PlanSizes, 0 .. MaxPlanHalves, SampleRates, 1 .. MaxChannels)
        \cup CorruptFiles({40 * MiB})

\* Spec: files around the threshold and above it
Sizes == {WHISPER_MAX_SIZE - 1, WHISPER_MAX_SIZE, WHISPER_MAX_SIZE + 1,
          40 * MiB, 400 * MiB}

Files ==
    DecodedFiles(Sizes, {k * DurStepHalves : k \in 0 .. MaxDurSteps}, {16000}, {1})
        \cup CorruptFiles({WHISPER_MAX_SIZE, 40 * MiB})

(***************************************************************************)
(* Messages: what the text says and the file formats it lists.             *)
(***************************************************************************)
Text(says, formats) == [says |-> says, formats |-> formats]

NoText == Text("", {})

\* audio-utils.ts:48  the Error thrown when decodeAudioData rejects
DecodeError == Text("decoding the audio file failed", {"MP3", "M4A", "WAV", "WebM"})

\* RecordTab.tsx:195  errorData.error || 'Whisper API Error'
WhisperError == Text("Whisper API Error", {})

\* RecordTab.tsx:316
GptError == Text("GPT API Error", {})

\* RecordTab.tsx:353  the text of the alert of the catch block
AlertText == Text("an error occurred during AI processing", {})

(***************************************************************************)
(* audioBufferToWav byte by byte, audio-utils.ts:122-171.                  *)
(* A sample is a Float32 value k / SampleUnit, kept as the integer k; its  *)
(* products with 0x8000 and 0x7fff are exact in doubles.  A product        *)
(* a * b is kept as the pair <<a, b>> (it may exceed 2^31).                *)
(***************************************************************************)
SampleUnit == 32768 * Pow2(ExtraBits)

\* String.prototype.charCodeAt for the characters of the header
charCodeAt ==
    ("R" :> 82) @@ ("I" :> 73) @@ ("F" :> 70) @@ ("W" :> 87) @@ ("A" :> 65) @@
    ("V" :> 86) @@ ("E" :> 69) @@ ("f" :> 102) @@ ("m" :> 109) @@ ("t" :> 116) @@
    (" " :> 32) @@ ("d" :> 100) @@ ("a" :> 97)

\* audio-utils.ts:176-180: the bytes writeString stores
writeString(string) == [i \in 1 .. Len(string) |-> charCodeAt[string[i]]]

\* DataView.setUint32(offset, v, true): four bytes, least significant first
setUint32(v) ==
    <<v % 256, (v \div 256) % 256, (v \div 65536) % 256, (v \div 16777216) % 256>>

\* DataView.setUint16(offset, v, true)
setUint16(v) == <<v % 256, (v \div 256) % 256>>

Abs(x) == IF x < 0 THEN -x ELSE x

\* variant: the fraction rounded to the nearest integer, not cut off
ToInt16_round(product, den) ==
    LET q == MulDiv(product[2], Abs(product[1]), den)
        m == IF 2 * q[2] >= den THEN q[1] + 1 ELSE q[1]
    IN  ((IF product[1] < 0 THEN -m ELSE m) + 65536) % 65536

\* the conversion setInt16 applies to the number product[1] * product[2] / den:
\* the fraction is cut off (toward zero), the integer taken modulo 2^16
ToInt16(product, den) ==
    LET m == MulDiv(product[2], Abs(product[1]), den)[1]
    IN  ((IF product[1] < 0 THEN -m ELSE m) + 65536) % 65536

\* DataView.setInt16(pos, product / den, true)
setInt16(product, den) == setUint16(ToInt16(product, den))

\* variant: no clamping in line 163
sample_noclamp(k) == k

\* audio-utils.ts:163  Math.max(-1, Math.min(1, x)) for x = k / SampleUnit
sample(k) == Max(-SampleUnit, Min(SampleUnit, k))

\* variant: the two factors of line 164 exchanged
intSample_swapped(k) == <<sample(k), IF sample(k) < 0 THEN 32767 ELSE 32768>>

\* audio-utils.ts:164  sample < 0 ? sample * 0x8000 : sample * 0x7fff, as the
\* product's factors, the first one over SampleUnit
intSample(k) == <<sample(k), IF sample(k) < 0 THEN 32768 ELSE 32767>>

\* variant: the RIFF size field holds the whole length
wavHeader_total(numberOfChannels, sampleRate, length) ==
    LET blockAlign  == numberOfChannels * bytesPerSample
        dataLength  == length * blockAlign
        totalLength == headerLength + dataLength
    IN  writeString(<<"R", "I", "F", "F">>) \o setUint32(totalLength)
        \o writeString(<<"W", "A", "V", "E">>)
        \o writeString(<<"f", "m", "t", " ">>) \o setUint32(16)
        \o setUint16(format) \o setUint16(numberOfChannels)
        \o setUint32(sampleRate) \o setUint32(sampleRate * blockAlign)
        \o setUint16(blockAlign) \o setUint16(bitDepth)
        \o writeString(<<"d", "a", "t", "a">>) \o setUint32(dataLength)

\* audio-utils.ts:138-151: the 44 bytes of the header
wavHeader(numberOfChannels, sampleRate, length) ==
    LET blockAlign  == numberOfChannels * bytesPerSample
        dataLength  == length * blockAlign
        totalLength == headerLength + dataLength
    IN  writeString(<<"R", "I", "F", "F">>) \o setUint32(totalLength - 8)
        \o writeString(<<"W", "A", "V", "E">>)
        \o writeString(<<"f", "m", "t", " ">>) \o setUint32(16)
        \o setUint16(format) \o setUint16(numberOfChannels)
        \o setUint32(sampleRate) \o setUint32(sampleRate * blockAlign)
        \o setUint16(blockAlign) \o setUint16(bitDepth)
        \o writeString(<<"d", "a", "t", "a">>) \o setUint32(dataLength)

\* audio-utils.ts:153-168: the interleaved samples, frame after frame and
\* within a frame channel after channel, two bytes each
wavData(b) ==
    [j \in 1 .. b.length * b.numberOfChannels * bytesPerSample |->
        LET pos     == (j - 1) \div bytesPerSample
            i       == pos \div b.numberOfChannels
            channel == pos % b.numberOfChannels
        IN  setInt16(intSample(b.channelData[channel + 1][i + 1]), SampleUnit)
                [((j - 1) % bytesPerSample) + 1]]

\* audio-utils.ts:135-170: the bytes of the Blob audioBufferToWav returns
arrayBuffer(b) == wavHeader(b.numberOfChannels, b.sampleRate, b.length) \o wavData(b)

AudioBuffer(numberOfChannels, sampleRate, channelData) ==
    [numberOfChannels |-> numberOfChannels, sampleRate |-> sampleRate,
     length |-> Len(channelData[1]), channelData |-> channelData]

\* no buffer: the encoder is not under study
NoBuffer == AudioBuffer(1, 16000, <<<<>>>>)

\* the sample of frame i of channel c (from 0) in the buffers of several frames
Ramp(c, i) == (c + 1) * (SampleUnit \div 10) - i * (SampleUnit \div 3)

\* sample values around every quarter from -2.0 to 2.0
Samples == {a * (SampleUnit \div 4) + d : a \in -8 .. 8, d \in -40 .. 40}

\* buffers of one sample, and buffers of several channels and frames
WavBuffers ==
    {AudioBuffer(1, 16000, <<<<k>>>>) : k \in Samples}
        \cup {AudioBuffer(n, r, [c \in 1 .. n |-> [i \in 1 .. len |-> Ramp(c - 1, i - 1)]]) :
                 n \in 1 .. MaxChannels, r \in SampleRates, len \in 1 .. MaxFrames}

NoRequests == [c \in {} |-> "none"]

(***************************************************************************)
(* The route POST /api/transcribe, src/unnamed/part_004:14-46.             *)
(* Concurrent requests are handled by one Node process: their handlers     *)
(* interleave at the awaits and share the clock and tmpdir().              *)
(***************************************************************************)
Requests == 1 .. MaxRequests

\* the bytes request r uploads
Bytes(r) == <<"bytes", r>>

NoBytes == <<>>

\* transcription.text for an upload of the content b
Transcribe(b) == <<"text of">> \o b

\* part_004:28  path.join(tmpdir(), `upload-${Date.now()}.webm`)
TempFilePath(t) == <<"upload-", t, ".webm">>

NoPath == <<>>

NoFiles == [f \in {} |-> NoBytes]

\* fs: the file at path f is created or truncated and gets the content b
WriteFile(files, f, b) ==
    [g \in DOMAIN files \cup {f} |-> IF g = f THEN b ELSE files[g]]

\* fs: the file at path f is removed
Unlink(files, f) == [g \in DOMAIN files \ {f} |-> files[g]]

Response(status, text) == [status |-> status, text |-> text]

NoResponse == Response(0, <<>>)

\* a handler: its position, its tempFilePath, the content its read stream
\* delivered to the upstream call, its response, and (history) whether
\* another request wrote or removed its temp file while it was using it
NewHandler ==
    [pc |-> "new", tempFilePath |-> NoPath, sent |-> NoBytes,
     response |-> NoResponse, disturbed |-> FALSE]

\* the positions between a handler's writeFile and its unlinkSync
Using == {"createReadStream", "transcriptions.create"}

\* history: request q writes or removes the file at path f
Disturb(h, q, f) ==
    [r \in DOMAIN h |->
        IF r # q /\ h[r].pc \in Using /\ h[r].tempFilePath = f
        THEN [h[r] EXCEPT !.disturbed = TRUE] ELSE h[r]]

InitState(files, start) ==
    /\ file \in files
    /\ pc = start
    /\ isProcessing = FALSE
    /\ processingText = Message("", 0, 0)
    /\ minutesData = "null"
    /\ alerts = 0
    /\ splitCalls = 0
    /\ directCalls = 0
    /\ chunks = <<>>
    /\ request = NoRequests
    /\ transcriptions = <<>>
    /\ slotWrites = <<>>
    /\ completedCount = 0
    /\ batchStart = 0
    /\ transcript = [assigned |-> FALSE, text |-> <<>>]
    /\ chatRequests = 0
    /\ order = "none"
    /\ reported = <<>>
    /\ issued = NoRequests
    /\ error = NoText
    /\ alertText = NoText
    /\ again = <<>>
    /\ audioContext = [created |-> 0, closed |-> 0]
    /\ now = 0
    /\ handler = [r \in Requests |-> NewHandler]
    /\ tmpFiles = NoFiles
    /\ wav = <<>>
    /\ isRecording = FALSE
    /\ isPaused = FALSE
    /\ pending = 0
    /\ recorders = <<>>
    /\ mediaRecorderRef = 0
    /\ intervals = <<>>
    /\ timerIntervalRef = 0
    /\ fileDialog = FALSE
    /\ uploads = 0
    /\ running = 0

Init == InitState(Files, "idle") /\ buffer = NoBuffer

\* audio-utils.ts:35  new AudioContext()
Created(ctx) == [ctx EXCEPT !.created = @ + 1]

\* audio-utils.ts:114  await audioContext.close()
Closed(ctx) == [ctx EXCEPT !.closed = @ + 1]

(***************************************************************************)
(* Steps of processAudio.  Each action is one run of the event loop: from  *)
(* an event (the call, a response) to the next await that has to wait.     *)
(***************************************************************************)

\* variant: no finally block, isProcessing reset on the success path only
Catch_nofinally ==
    /\ alerts' = alerts + 1
    /\ alertText' = AlertText
    /\ UNCHANGED isProcessing
    /\ pc' = "done"

\* RecordTab.tsx:351-356: catch (alert) and finally
Catch ==
    /\ alerts' = alerts + 1
    /\ alertText' = AlertText
    /\ isProcessing' = FALSE
    /\ pc' = "done"

\* RecordTab.tsx:253-314: the transcript is handed to summarization
Summarize(text) ==
    /\ transcript' = [assigned |-> TRUE, text |-> text]
    /\ processingText' = Message("summarizing", 0, 0)
    /\ chatRequests' = chatRequests + 1
    /\ pc' = "chat"

\* RecordTab.tsx:233-235: the requests of the batch starting at bStart are sent
IssueBatch(req, bStart, n) ==
    [c \in DOMAIN req |-> IF c \in Batch(bStart, n) THEN "inflight" ELSE req[c]]

\* history of IssueBatch: one more request sent for each chunk of the batch
CountBatch(iss, bStart, n) ==
    [c \in DOMAIN iss |-> IF c \in Batch(bStart, n) THEN iss[c] + 1 ELSE iss[c]]

\* RecordTab.tsx:203-217, 247-250: the call, up to its first await
ProcessAudio ==
    /\ pc = "idle"
    /\ isProcessing' = TRUE
    /\ IF needsSplitting(file.size)
       THEN /\ splitCalls' = splitCalls + 1
            /\ processingText' = Message("decoding", 0, 0)
            /\ pc' = "decoding"
            /\ audioContext' = Created(audioContext)
            /\ UNCHANGED directCalls
       ELSE /\ directCalls' = directCalls + 1
            /\ processingText' = Message("converting", 0, 0)
            /\ pc' = "direct"
            /\ UNCHANGED <<splitCalls, audioContext>>
    /\ UNCHANGED <<besides, again, file, minutesData, alerts, chunks, request,
                   transcriptions,
                   slotWrites, completedCount, batchStart, transcript, chatRequests,
                   order,
                   reported, issued,
                   error, alertText>>

\* audio-utils.ts:44-49 throws; RecordTab.tsx:351-356
DecodeFails ==
    /\ pc = "decoding"
    /\ ~file.decodable
    /\ Catch
    /\ UNCHANGED <<besides, again, audioContext, file, processingText, minutesData, splitCalls,
                   directCalls, chunks,
                   request, transcriptions, slotWrites, completedCount, batchStart,
                   transcript, chatRequests, order, reported, issued>>
    /\ error' = DecodeError

\* audio-utils.ts:51-116 returns; RecordTab.tsx:219-235 (first batch sent), or
\* 245-314 when there is no chunk
SplitReturns ==
    /\ pc = "decoding"
    /\ file.decodable
    /\ LET cs == splitAudioFile(file)
           n  == Len(cs)
       IN  /\ chunks' = cs
           /\ transcriptions' = [p \in 1 .. n |-> <<>>]
           /\ slotWrites' = [p \in 1 .. n |-> 0]
           /\ completedCount' = 0
           /\ batchStart' = 0
           /\ audioContext' = Closed(audioContext)
           /\ IF n > 0
              THEN /\ request' = IssueBatch([c \in 0 .. n - 1 |-> "none"], 0, n)
                   /\ issued' = CountBatch([c \in 0 .. n - 1 |-> 0], 0, n)
                   /\ processingText' = Progress(0, n)
                   /\ reported' = <<0>>
                   /\ pc' = "transcribing"
                   /\ UNCHANGED <<transcript, chatRequests>>
              ELSE /\ request' = NoRequests
                   /\ Summarize(combineTranscriptions(<<>>))
                   /\ issued' = NoRequests
                   /\ UNCHANGED reported
    /\ UNCHANGED <<besides, again, file, isProcessing, minutesData, alerts, splitCalls,
                   directCalls,
                   order, error, alertText>>

\* the processAudio flow awaiting Promise.all of the current batch resumes:
\* RecordTab.tsx:226-246 on fulfilment, 351-356 on rejection
Resume(req, ts, done) ==
    LET n       == Len(chunks)
        outcome == IF pc = "transcribing"
                   THEN PromiseAll(BatchStates(req, batchStart, n)) ELSE "pending"
        next    == batchStart + BATCH_SIZE
        \* line 238, run by a successful request before the flow resumes
        log     == IF done = completedCount THEN reported ELSE Append(reported, done)
    IN  CASE outcome = "rejected" ->
               /\ Catch
               /\ request' = req
               /\ processingText' = IF done = completedCount THEN processingText
                                    ELSE Progress(done, n)
               /\ reported' = log
               /\ UNCHANGED <<batchStart, transcript, chatRequests, issued>>
               /\ error' = WhisperError
          [] outcome = "fulfilled" /\ next < n ->
               /\ batchStart' = next
               /\ request' = IssueBatch(req, next, n)
               /\ issued' = CountBatch(issued, next, n)
               /\ processingText' = Progress(done, n)
               /\ reported' = Append(log, done)
               /\ UNCHANGED <<pc, isProcessing, alerts, transcript, chatRequests,
                              error, alertText>>
          [] outcome = "fulfilled" /\ next >= n ->
               /\ request' = req
               /\ Summarize(combineTranscriptions(ts))
               /\ reported' = log
               /\ UNCHANGED <<batchStart, isProcessing, alerts, issued, error,
                              alertText>>
          [] OTHER ->
               /\ request' = req
               /\ processingText' = IF done = completedCount THEN processingText
                                    ELSE Progress(done, n)
               /\ reported' = log
               /\ UNCHANGED <<pc, isProcessing, alerts, batchStart, transcript,
                              chatRequests, issued, error, alertText>>

\* history: the response to chunk c arrives
Arrives(c) ==
    order' = IF order # "other" /\ \A d \in DOMAIN request :
                                      request[d] = "inflight" => d <= c
             THEN "reverse" ELSE "other"

\* RecordTab.tsx:193-199 and 236-239: the response to chunk c is OK
ChunkSucceeds(c) ==
    /\ c \in DOMAIN request
    /\ request[c] = "inflight"
    /\ LET bStart == ClosureBatchStart(c)
           slot   == globalIndex(bStart, c - bStart)
           ts     == StoreResult(transcriptions, slot, ChunkText(c))
       IN  /\ transcriptions' = ts
           /\ slotWrites' = [p \in DOMAIN slotWrites |->
                               IF ts[p] # transcriptions[p] THEN slotWrites[p] + 1
                               ELSE slotWrites[p]]
           /\ completedCount' = Completed(completedCount, slot)
           /\ Resume([request EXCEPT ![c] = "ok"], ts, Completed(completedCount, slot))
    /\ Arrives(c)
    /\ UNCHANGED <<besides, again, audioContext, file, minutesData, splitCalls,
                   directCalls, chunks>>

\* RecordTab.tsx:188-196: fetch rejects (network error) or the response is not OK
ChunkFails(c) ==
    /\ c \in DOMAIN request
    /\ request[c] = "inflight"
    /\ Resume([request EXCEPT ![c] = "failed"], transcriptions, completedCount)
    /\ Arrives(c)
    /\ UNCHANGED <<besides, again, audioContext, file, minutesData, splitCalls,
                   directCalls, chunks,
                   transcriptions,
                   slotWrites, completedCount>>

\* RecordTab.tsx:250 returns the text of the whole input; 253-314
DirectSucceeds ==
    /\ pc = "direct"
    /\ Summarize(DirectText)
    /\ UNCHANGED <<besides, again, audioContext, file, isProcessing, minutesData,
                   alerts, splitCalls,
                   directCalls,
                   chunks, request, transcriptions, slotWrites, completedCount,
                   batchStart, order, reported, issued,
                   error, alertText>>

\* RecordTab.tsx:250 throws; 351-356
DirectFails ==
    /\ pc = "direct"
    /\ Catch
    /\ UNCHANGED <<besides, again, audioContext, file, processingText, minutesData, splitCalls,
                   directCalls, chunks,
                   request, transcriptions, slotWrites, completedCount, batchStart,
                   transcript, chatRequests, order, reported, issued>>
    /\ error' = WhisperError

\* RecordTab.tsx:316-350 and 354-356
ChatSucceeds ==
    /\ pc = "chat"
    /\ minutesData' = "set"
    /\ isProcessing' = FALSE
    /\ pc' = "done"
    /\ UNCHANGED <<besides, again, audioContext, file, processingText, alerts,
                   splitCalls, directCalls,
                   chunks,
                   request, transcriptions, slotWrites, completedCount, batchStart,
                   transcript, chatRequests, order, reported, issued,
                   error, alertText>>

\* RecordTab.tsx:303-318 throws (network error, not OK, malformed JSON); 351-356
ChatFails ==
    /\ pc = "chat"
    /\ Catch
    /\ UNCHANGED <<besides, again, audioContext, file, processingText, minutesData, splitCalls,
                   directCalls, chunks,
                   request, transcriptions, slotWrites, completedCount, batchStart,
                   transcript, chatRequests, order, reported, issued>>
    /\ error' = GptError

Next ==
    \/ ProcessAudio
    \/ DecodeFails
    \/ SplitReturns
    \/ \E c \in DOMAIN request : ChunkSucceeds(c)
    \/ \E c \in DOMAIN request : ChunkFails(c)
    \/ DirectSucceeds
    \/ DirectFails
    \/ ChatSucceeds
    \/ ChatFails

Spec == Init /\ [][Next]_vars

(***************************************************************************)
(* The operations processAudio awaits settle: while a decoding or a fetch  *)
(* is outstanding, one of them ends with a result or an error and the      *)
(* event loop runs its continuation.  The call of processAudio itself is   *)
(* the user's and is not forced.                                           *)
(***************************************************************************)
Settle ==
    \/ DecodeFails
    \/ SplitReturns
    \/ \E c \in DOMAIN request : ChunkSucceeds(c)
    \/ \E c \in DOMAIN request : ChunkFails(c)
    \/ DirectSucceeds
    \/ DirectFails
    \/ ChatSucceeds
    \/ ChatFails

\* files of the direct path, of no chunk, of one batch and of two batches, and
\* a file that does not decode
SettleFiles ==
    DecodedFiles({WHISPER_MAX_SIZE, 400 * MiB},
                 {0, DurStepHalves, MaxDurSteps * DurStepHalves}, {16000}, {1})
        \cup CorruptFiles({40 * MiB})

InitSettles == InitState(SettleFiles, "idle") /\ buffer = NoBuffer

SpecSettles == InitSettles /\ [][Next]_vars /\ WF_vars(Settle)

(***************************************************************************)
(* splitAudioFile on its own, over a wide range of decoded files.          *)
(***************************************************************************)
InitPlan == InitState(PlanFiles, "split") /\ buffer = NoBuffer

\* audio-utils.ts:51-116
SplitAudioFileReturns ==
    /\ pc = "split"
    /\ file.decodable
    /\ chunks' = splitAudioFile(file)
    /\ pc' = "returned"
    /\ audioContext' = Closed(Created(audioContext))
    /\ UNCHANGED <<besides, again, file, isProcessing, processingText, minutesData,
                   alerts, splitCalls,
                   directCalls, request, transcriptions, slotWrites, completedCount,
                   batchStart, transcript, chatRequests, order, reported, issued,
                   error, alertText>>

\* audio-utils.ts:44-49
SplitAudioFileThrows ==
    /\ pc = "split"
    /\ ~file.decodable
    /\ pc' = "threw"
    /\ audioContext' = Created(audioContext)
    /\ UNCHANGED <<besides, again, file, isProcessing, processingText, minutesData,
                   alerts, splitCalls,
                   directCalls, chunks, request, transcriptions, slotWrites,
                   completedCount, batchStart, transcript, chatRequests, order,
                   reported, issued,
                   alertText>>
    /\ error' = DecodeError

\* audio-utils.ts:28-117: a second call on the same file returns
SplitAudioFileAgain ==
    /\ pc = "returned"
    /\ again' = splitAudioFile(file)
    /\ pc' = "returned again"
    /\ audioContext' = Closed(Created(audioContext))
    /\ UNCHANGED <<besides, file, isProcessing, processingText, minutesData,
                   alerts, splitCalls, directCalls, chunks, request, transcriptions,
                   slotWrites, completedCount, batchStart, transcript, chatRequests,
                   order, reported, issued, error, alertText>>

NextPlan == SplitAudioFileReturns \/ SplitAudioFileThrows \/ SplitAudioFileAgain

SpecPlan == InitPlan /\ [][NextPlan]_vars

(***************************************************************************)
(* Handlers of POST /api/transcribe.  Each action is one run of the        *)
(* server's event loop, from an event to the handler's next await.         *)
(***************************************************************************)
\* part_004:45 (catch) and 22: the handler answers with an error status
Fail(r, status) ==
    [handler EXCEPT ![r].pc = "responded", ![r].response = Response(status, <<>>)]

\* the clock advances
Tick ==
    /\ now < MaxClock
    /\ now' = now + 1
    /\ UNCHANGED <<handler, tmpFiles, clientVars, wavVars, recorderVars>>

\* part_004:14-29: the request is parsed; without a file it is answered 400,
\* else the path is made from the clock and writeFile is started
Post(r) ==
    /\ handler[r].pc = "new"
    /\ \E hasFile \in BOOLEAN :
           handler' = IF hasFile
                      THEN [handler EXCEPT ![r].pc = "writeFile",
                                           ![r].tempFilePath = TempFilePath(now)]
                      ELSE Fail(r, 400)
    /\ UNCHANGED <<now, tmpFiles, clientVars, wavVars, recorderVars>>

\* part_004:29-36: writeFile has written the upload; the read stream on the
\* path is created and handed to openai.audio.transcriptions.create
WriteFileDone(r) ==
    /\ handler[r].pc = "writeFile"
    /\ tmpFiles' = WriteFile(tmpFiles, handler[r].tempFilePath, Bytes(r))
    /\ handler' = [Disturb(handler, r, handler[r].tempFilePath)
                      EXCEPT ![r].pc = "createReadStream"]
    /\ UNCHANGED <<now, clientVars, wavVars, recorderVars>>

\* part_004:33: the stream opens the path and its content is uploaded; when
\* the path does not exist the stream fails and with it the call (42-45)
ReadStream(r) ==
    /\ handler[r].pc = "createReadStream"
    /\ handler' = IF handler[r].tempFilePath \in DOMAIN tmpFiles
                  THEN [handler EXCEPT ![r].pc = "transcriptions.create",
                                       ![r].sent = tmpFiles[handler[r].tempFilePath]]
                  ELSE Fail(r, 500)
    /\ UNCHANGED <<now, tmpFiles, clientVars, wavVars, recorderVars>>

\* part_004:36-41: the transcription arrives; unlinkSync removes the path, or
\* throws when it does not exist (42-45); then the text is the response
TranscriptionReturns(r) ==
    /\ handler[r].pc = "transcriptions.create"
    /\ IF handler[r].tempFilePath \in DOMAIN tmpFiles
       THEN /\ tmpFiles' = Unlink(tmpFiles, handler[r].tempFilePath)
            /\ handler' = [Disturb(handler, r, handler[r].tempFilePath)
                              EXCEPT ![r].pc = "responded",
                                     ![r].response =
                                         Response(200, Transcribe(handler[r].sent))]
       ELSE /\ handler' = Fail(r, 500)
            /\ UNCHANGED tmpFiles
    /\ UNCHANGED <<now, clientVars, wavVars, recorderVars>>

\* part_004:32-36 throws (the upstream call fails) and 42-45
TranscriptionFails(r) ==
    /\ handler[r].pc = "transcriptions.create"
    /\ handler' = Fail(r, 500)
    /\ UNCHANGED <<now, tmpFiles, clientVars, wavVars, recorderVars>>

NextServer ==
    \/ Tick
    \/ \E r \in Requests : Post(r)
    \/ \E r \in Requests : WriteFileDone(r)
    \/ \E r \in Requests : ReadStream(r)
    \/ \E r \in Requests : TranscriptionReturns(r)
    \/ \E r \in Requests : TranscriptionFails(r)

\* the browser side stays as it is before processAudio is called
InitServer == InitState(CorruptFiles({40 * MiB}), "idle") /\ buffer = NoBuffer

SpecServer == InitServer /\ [][NextServer]_vars

(***************************************************************************)
(* audioBufferToWav on its own, over small buffers.                        *)
(***************************************************************************)
InitWav == InitState(CorruptFiles({40 * MiB}), "idle") /\ buffer \in WavBuffers

\* audio-utils.ts:122-171
AudioBufferToWavReturns ==
    /\ wav = <<>>
    /\ buffer # NoBuffer
    /\ wav' = arrayBuffer(buffer)
    /\ UNCHANGED <<buffer, clientVars, serverVars, recorderVars>>

NextWav == AudioBufferToWavReturns

SpecWav == InitWav /\ [][NextWav]_vars

(***************************************************************************)
(* splitAudioFile frame by frame, for buffers whose length is not a whole  *)
(* number of half seconds.  audioBuffer.duration is the double nearest to  *)
(* length / sampleRate; line 83 multiplies it by sampleRate again.         *)
(***************************************************************************)
\* SpecSeam: up to MaxExtraFrames frames beyond a whole number of half seconds
MaxExtraFrames == 40

RECURSIVE ShiftMod(_, _, _)
\* (x * 2^s) mod m, without forming the product
ShiftMod(x, s, m) == IF s = 0 THEN x % m ELSE ShiftMod((2 * x) % m, s - 1, m)

(***************************************************************************)
(* audio-utils.ts:83 for endTime = duration:                               *)
(* Math.floor(duration * sampleRate), duration the double nearest to       *)
(* length / rate (length >= rate).  With 2^e <= length / rate < 2^(e+1)    *)
(* the significand of duration is length * 2^(52-e) / rate, rounded to the *)
(* nearest integer (ties to even).  If it was rounded down, past           *)
(* remainder R, then duration * rate = length - R * 2^(e-52) exactly, and  *)
(* the double nearest to that is below length when R * 2^(e-52) is more    *)
(* than half the spacing of the doubles below length; the floor is then    *)
(* length - 1.                                                             *)
(***************************************************************************)
endSampleAtDuration(length, rate) ==
    LET E    == BitLen(length) - 1
        e    == BitLen(length \div rate) - 1
        x    == ShiftMod(length % (2 * rate), 52 - e, 2 * rate)
        R    == x % rate
        down == 2 * R < rate \/ (2 * R = rate /\ x < rate)
        half == Pow2(E - e - 1 - (IF length = Pow2(E) THEN 1 ELSE 0))
    IN  IF down /\ R > half THEN length - 1 ELSE length

\* the frames of finalChunkDuration seconds
framesPerChunk(f) == finalChunkDuration(f.size, f.durationHalves) * f.sampleRate

\* audio-utils.ts:65  Math.ceil(duration / finalChunkDuration) for the duration
\* length / sampleRate
numberOfChunksOf(f) == (f.length + framesPerChunk(f) - 1) \div framesPerChunk(f)

\* audio-utils.ts:72-73, 82-84: the sample range of loop index i;
\* endTime is (i + 1) * finalChunkDuration or, in the last pass, duration
chunkRange(f, i) ==
    LET startSample == i * framesPerChunk(f)
        endSample   == IF (i + 1) * framesPerChunk(f) < f.length
                       THEN (i + 1) * framesPerChunk(f)
                       ELSE endSampleAtDuration(f.length, f.sampleRate)
    IN  [index |-> i, startSample |-> startSample, endSample |-> endSample,
         chunkLength |-> endSample - startSample]

\* audio-utils.ts:71-108: the chunks, each with the range it was cut from
chunkRanges(f) ==
    [p \in 1 .. numberOfChunksOf(f) |->
        [index |-> p - 1,
         startSample |-> chunkRange(f, p - 1).startSample,
         endSample |-> chunkRange(f, p - 1).endSample,
         blob |-> audioBufferToWav(chunkRange(f, p - 1).chunkLength,
                                   f.numberOfChannels, f.sampleRate)]]

\* decoded files of `halves` half seconds and up to MaxExtraFrames frames more.
\* The planner's result rises with the duration: where it is the same for
\* `halves` and `halves + 1` half seconds, it is that for the lengths between.
LongFiles(size, halves, rates) ==
    {[size |-> size, durationHalves |-> h, sampleRate |-> r,
      numberOfChannels |-> 1, decodable |-> TRUE, length |-> (h * r) \div 2 + x] :
        h \in {k \in halves : finalChunkDuration(size, k)
                                  = finalChunkDuration(size, k + 1)},
        r \in rates, x \in 0 .. MaxExtraFrames}

SeamFiles ==
    LongFiles(40 * MiB, {1400, 1401}, SampleRates)
        \cup LongFiles(80 * MiB, {4096}, {16000})

InitSeam == InitState(SeamFiles, "split") /\ buffer = NoBuffer

\* audio-utils.ts:51-116: every chunk buffer could be created
SplitSamplesReturns ==
    /\ pc = "split"
    /\ \A i \in 0 .. numberOfChunksOf(file) - 1 : chunkRange(file, i).chunkLength > 0
    /\ chunks' = chunkRanges(file)
    /\ pc' = "returned"
    /\ audioContext' = Closed(Created(audioContext))
    /\ UNCHANGED <<besides, again, file, isProcessing, processingText, minutesData,
                   alerts, splitCalls, directCalls, request, transcriptions,
                   slotWrites, completedCount, batchStart, transcript, chatRequests,
                   order, reported, issued, error, alertText>>

\* audio-utils.ts:87  createBuffer throws NotSupportedError for a length of 0
NotSupportedError == Text("NotSupportedError", {})

\* audio-utils.ts:87-91: createBuffer throws in some pass of the loop
CreateBufferThrows ==
    /\ pc = "split"
    /\ \E i \in 0 .. numberOfChunksOf(file) - 1 : chunkRange(file, i).chunkLength = 0
    /\ pc' = "threw"
    /\ audioContext' = Created(audioContext)
    /\ error' = NotSupportedError
    /\ UNCHANGED <<besides, again, file, isProcessing, processingText, minutesData,
                   alerts, splitCalls, directCalls, chunks, request, transcriptions,
                   slotWrites, completedCount, batchStart, transcript, chatRequests,
                   order, reported, issued, alertText>>

NextSeam == SplitSamplesReturns \/ CreateBufferThrows

SpecSeam == InitSeam /\ [][NextSeam]_vars

(***************************************************************************)
(* The recording controls of RecordTab, RecordTab.tsx:68-179 and 543-605.  *)
(* Each action is one run of the event loop: a click, the settling of      *)
(* getUserMedia, the recorder's stop event, the change event of the file   *)
(* input, the end of a processAudio call.  What a processAudio call does   *)
(* between its beginning and its end is in Spec; it does not touch the     *)
(* recording controls.  While the file chooser is open the page takes no   *)
(* clicks.                                                                 *)
(***************************************************************************)
\* SpecRecorder: startRecording calls, resumeRecording calls, openings of the
\* file chooser
MaxStarts == 2
MaxResumes == 1
MaxUploads == 1

\* the variables of processAudio the recording controls leave alone
orchestration == <<file, pc, minutesData, alerts, splitCalls, directCalls, chunks,
                   request, transcriptions, slotWrites, completedCount, batchStart,
                   transcript, chatRequests, order, reported, issued, error,
                   again, audioContext>>

\* RecordTab.tsx:96  the text of the alert when getUserMedia rejects
MicrophoneAlert == Text("access to the microphone was denied", {})

\* RecordTab.tsx:156  the text of the alert for a file of another type
FormatAlert == Text("unsupported audio format", {"MP3", "M4A", "WAV", "WebM", "OGG"})

\* RecordTab.tsx:162  the text of the alert for a file above 1 GB
SizeAlert == Text("the file is too large", {})

\* a MediaRecorder: its state attribute and whether its stop event is "none",
\* "queued" or "fired"
MediaRecorder(state, onstop) == [state |-> state, onstop |-> onstop]

\* setInterval(updateTimer, 1000): one more interval, scheduled
setInterval(ivs) == Append(ivs, TRUE)

\* if (timerIntervalRef.current) clearInterval(timerIntervalRef.current)
clearInterval(ivs, id) == IF id = 0 THEN ivs ELSE [ivs EXCEPT ![id] = FALSE]

\* RecordTab.tsx:546, 558  disabled={isRecording || isProcessing}
disabled == isRecording \/ isProcessing

\* RecordTab.tsx:203-217 or 247-250: a processAudio call begins and runs up to
\* its first await
ProcessAudioBegins ==
    /\ isProcessing' = TRUE
    /\ processingText' \in {Message("decoding", 0, 0), Message("converting", 0, 0)}
    /\ running' = running + 1

\* RecordTab.tsx:139-143 and 68-70: a click on the record button; startRecording
\* awaits getUserMedia
toggleRecording ==
    /\ ~fileDialog
    /\ ~disabled
    /\ pending + Len(recorders) < MaxStarts
    /\ pending' = IF ~isRecording THEN pending + 1 ELSE pending
    /\ UNCHANGED <<isRecording, isPaused, recorders, mediaRecorderRef, intervals,
                   timerIntervalRef, fileDialog, uploads, running, clientVars,
                   serverVars, wavVars>>

\* RecordTab.tsx:70-94: getUserMedia resolves; the recorder is created and
\* started, the timer interval is set
startRecording ==
    /\ pending > 0
    /\ pending' = pending - 1
    /\ recorders' = Append(recorders, MediaRecorder("recording", "none"))
    /\ mediaRecorderRef' = Len(recorders) + 1
    /\ isRecording' = TRUE
    /\ isPaused' = FALSE
    /\ intervals' = setInterval(intervals)
    /\ timerIntervalRef' = Len(intervals) + 1
    /\ UNCHANGED <<fileDialog, uploads, running, clientVars, serverVars, wavVars>>

\* RecordTab.tsx:95-97: getUserMedia rejects; an alert says so
startRecordingDenied ==
    /\ pending > 0
    /\ pending' = pending - 1
    /\ alertText' = MicrophoneAlert
    /\ UNCHANGED <<isRecording, isPaused, recorders, mediaRecorderRef, intervals,
                   timerIntervalRef, fileDialog, uploads, running, isProcessing,
                   processingText, orchestration, serverVars, wavVars>>

\* RecordTab.tsx:101-111, the button of line 594 (shown while recording and
\* not paused)
pauseRecording ==
    /\ ~fileDialog
    /\ isRecording /\ ~isPaused
    /\ IF mediaRecorderRef # 0 /\ recorders[mediaRecorderRef].state = "recording"
       THEN /\ recorders' = [recorders EXCEPT ![mediaRecorderRef].state = "paused"]
            /\ isPaused' = TRUE
            /\ intervals' = clearInterval(intervals, timerIntervalRef)
       ELSE UNCHANGED <<recorders, isPaused, intervals>>
    /\ UNCHANGED <<isRecording, pending, mediaRecorderRef, timerIntervalRef,
                   fileDialog, uploads, running, clientVars, serverVars, wavVars>>

\* RecordTab.tsx:114-122, the button of line 598 (shown while paused)
resumeRecording ==
    /\ ~fileDialog
    /\ isRecording /\ isPaused
    /\ Len(intervals) - Len(recorders) < MaxResumes
    /\ IF mediaRecorderRef # 0 /\ recorders[mediaRecorderRef].state = "paused"
       THEN /\ recorders' = [recorders EXCEPT ![mediaRecorderRef].state = "recording"]
            /\ isPaused' = FALSE
            /\ intervals' = setInterval(intervals)
            /\ timerIntervalRef' = Len(intervals) + 1
       ELSE UNCHANGED <<recorders, isPaused, intervals, timerIntervalRef>>
    /\ UNCHANGED <<isRecording, pending, mediaRecorderRef, fileDialog, uploads,
                   running, clientVars, serverVars, wavVars>>

\* RecordTab.tsx:125-136, the button of line 602 (shown while recording):
\* stop() makes the recorder inactive and queues its stop event
stopRecording ==
    /\ ~fileDialog
    /\ isRecording
    /\ IF mediaRecorderRef # 0
       THEN /\ recorders' =
                   [recorders EXCEPT ![mediaRecorderRef] =
                       IF @.state = "inactive" THEN @
                       ELSE MediaRecorder("inactive", "queued")]
            /\ intervals' = clearInterval(intervals, timerIntervalRef)
            /\ isRecording' = FALSE
            /\ isPaused' = FALSE
       ELSE UNCHANGED <<recorders, intervals, isRecording, isPaused>>
    /\ UNCHANGED <<pending, mediaRecorderRef, timerIntervalRef, fileDialog, uploads,
                   running, clientVars, serverVars, wavVars>>

\* RecordTab.tsx:81-86: the stop event of recorder m; processAudio(blob)
onstop(m) ==
    /\ recorders[m].onstop = "queued"
    /\ recorders' = [recorders EXCEPT ![m].onstop = "fired"]
    /\ ProcessAudioBegins
    /\ UNCHANGED <<isRecording, isPaused, pending, mediaRecorderRef, intervals,
                   timerIntervalRef, fileDialog, uploads, alertText, orchestration,
                   serverVars, wavVars>>

\* RecordTab.tsx:555-562: a click on the file button opens the file chooser
ChooseFile ==
    /\ ~fileDialog
    /\ ~disabled
    /\ uploads < MaxUploads
    /\ uploads' = uploads + 1
    /\ fileDialog' = TRUE
    /\ UNCHANGED <<isRecording, isPaused, pending, recorders, mediaRecorderRef,
                   intervals, timerIntervalRef, running, clientVars, serverVars,
                   wavVars>>

\* the file chooser is closed without a file: no change event
Cancel ==
    /\ fileDialog
    /\ fileDialog' = FALSE
    /\ UNCHANGED <<isRecording, isPaused, pending, recorders, mediaRecorderRef,
                   intervals, timerIntervalRef, uploads, running, clientVars,
                   serverVars, wavVars>>

\* RecordTab.tsx:146-179: the change event of the file input; a file of a
\* type or size that is not accepted is answered with an alert, another one
\* is handed to processAudio
handleAudioFileUpload ==
    /\ fileDialog
    /\ fileDialog' = FALSE
    /\ \E check \in {"type", "size", "accepted"} :
           CASE check = "type" ->
                  /\ alertText' = FormatAlert
                  /\ UNCHANGED <<isProcessing, processingText, running>>
             [] check = "size" ->
                  /\ alertText' = SizeAlert
                  /\ UNCHANGED <<isProcessing, processingText, running>>
             [] check = "accepted" ->
                  /\ ProcessAudioBegins
                  /\ UNCHANGED alertText
    /\ UNCHANGED <<isRecording, isPaused, pending, recorders, mediaRecorderRef,
                   intervals, timerIntervalRef, uploads, orchestration, serverVars,
                   wavVars>>

\* RecordTab.tsx:354-356: a processAudio call reaches its finally block
ProcessAudioEnds ==
    /\ running > 0
    /\ running' = running - 1
    /\ isProcessing' = FALSE
    /\ UNCHANGED <<isRecording, isPaused, pending, recorders, mediaRecorderRef,
                   intervals, timerIntervalRef, fileDialog, uploads, processingText,
                   alertText, orchestration, serverVars, wavVars>>

NextRecorder ==
    \/ toggleRecording
    \/ startRecording
    \/ startRecordingDenied
    \/ pauseRecording
    \/ resumeRecording
    \/ stopRecording
    \/ \E m \in DOMAIN recorders : onstop(m)
    \/ ChooseFile
    \/ Cancel
    \/ handleAudioFileUpload
    \/ ProcessAudioEnds

InitRecorder == InitState(CorruptFiles({40 * MiB}), "idle") /\ buffer = NoBuffer

SpecRecorder == InitRecorder /\ [][NextRecorder]_vars

(***************************************************************************)
(* Properties                                                              *)
(***************************************************************************)
\* the decoded duration D is positive and splitAudioFile has returned
Planned == pc = "returned" /\ file.durationHalves > 0

\* the split path of processAudio has assembled the transcript
Assembled == transcript.assigned /\ splitCalls > 0

InFlight == {c \in DOMAIN request : request[c] = "inflight"}

\* the characters of s that are not blanks
Letters(s) == SelectSeq(s, LAMBDA ch : ~IsSpace(ch))

\* C1: every blob splitAudioFile returns, of 44 + frames x channels x 2 bytes,
\* is at most WHISPER_MAX_SIZE (25 MiB) bytes long.
C1_BlobsWithinWhisperLimit ==
    pc = "returned" =>
        \A p \in DOMAIN chunks :
            /\ chunks[p].blob.size =
                   44 + chunks[p].blob.frames * file.numberOfChannels * 2
            /\ chunks[p].blob.size <= WHISPER_MAX_SIZE

\* C2: on the split path, once the remote call of any chunk has failed the
\* operation has failed (alert shown, isProcessing back to false), no transcript
\* is assembled, no /api/chat request is sent and minutesData stays unset; and a
\* transcript handed to summarization means every chunk's call succeeded.
C2_AllOrNothing ==
    /\ (\E c \in DOMAIN request : request[c] = "failed") =>
           /\ pc = "done" /\ alerts = 1 /\ ~isProcessing
           /\ ~transcript.assigned
           /\ chatRequests = 0
           /\ minutesData = "null"
    /\ Assembled =>
           /\ DOMAIN request = 0 .. Len(chunks) - 1
           /\ \A c \in DOMAIN request : request[c] = "ok"

\* C2 witness: chunk 5 of more than ten fails after the four before it succeeded
C2_Witness ==
    /\ Len(chunks) > BATCH_SIZE
    /\ request[4] = "failed"
    /\ \A c \in 0 .. 3 : request[c] = "ok"
    /\ pc = "done"

\* C3: whatever the order the responses arrive in, the assembled transcript is
\* the chunks' words in ascending chunk index 0 .. N-1.
C3_OrderedReassembly ==
    Assembled =>
        Letters(transcript.text) = [p \in 1 .. Len(chunks) |-> Word(p - 1)]

\* C3 witness: two batches whose responses all arrived in reverse index order
C3_Witness == Assembled /\ Len(chunks) > BATCH_SIZE /\ order = "reverse"

\* C4: never more than 10 chunk transcription requests are in flight.
C4_BoundedConcurrency == Cardinality(InFlight) <= 10

\* C4 witness: a full batch in flight, with chunks left for a later batch
C4_Witness ==
    /\ Cardinality(InFlight) = BATCH_SIZE
    /\ \E c \in DOMAIN request : request[c] = "none"

\* C5: a request of a later batch is issued only when every request of the
\* batches before it has resolved.
C5_BatchBarrier ==
    \A c \in DOMAIN request :
        request[c] # "none" =>
            \A d \in DOMAIN request :
                d \div 10 < c \div 10 => request[d] \in {"ok", "failed"}

\* C5 witness: a request of the second batch is in flight
C5_Witness == \E c \in DOMAIN request : c >= BATCH_SIZE /\ request[c] = "inflight"

\* C6: a slot of transcriptions is written by the request of its own chunk only
\* and at most once, and when the transcript is assembled every slot has been
\* written exactly once.
C6_DisjointSlots ==
    /\ DOMAIN slotWrites = DOMAIN transcriptions
    /\ \A p \in DOMAIN transcriptions :
           /\ slotWrites[p] <= 1
           /\ slotWrites[p] = 1 <=> request[p - 1] = "ok"
           /\ transcriptions[p] =
                  IF request[p - 1] = "ok" THEN ChunkText(p - 1) ELSE <<>>
    /\ Assembled => \A p \in DOMAIN transcriptions : slotWrites[p] = 1

\* C6 witness: the slots of two batches have been written and read for assembly
C6_Witness ==
    /\ Assembled
    /\ Len(transcriptions) > BATCH_SIZE
    /\ \A p \in DOMAIN transcriptions : slotWrites[p] = 1

\* C7: an input of at most 25 MiB gets exactly one direct remote call and is
\* never split; a larger one is split and gets no direct call.
C7_ThresholdBoundary ==
    pc # "idle" =>
        IF file.size <= 25 * 1024 * 1024
        THEN directCalls = 1 /\ splitCalls = 0 /\ chunks = <<>> /\ request = NoRequests
        ELSE splitCalls = 1 /\ directCalls = 0

\* C7 witness: an input of exactly 25 MiB has been transcribed by its direct call
C7_Witness ==
    file.size = WHISPER_MAX_SIZE /\ pc = "chat" /\ transcript.text = DirectText

\* C8: for D > 0 the chunk intervals are at least one, start at 0, end at D,
\* ascend, and each ends where the next starts.
C8_PlanCoverage ==
    Planned =>
        /\ Len(chunks) >= 1
        /\ chunks[1].startTime = 0
        /\ chunks[Len(chunks)].startTime + chunks[Len(chunks)].duration
               = file.durationHalves
        /\ \A p \in 1 .. Len(chunks) - 1 :
               /\ chunks[p].startTime + chunks[p].duration = chunks[p + 1].startTime
               /\ chunks[p].startTime < chunks[p + 1].startTime
        /\ \A p \in 1 .. Len(chunks) : chunks[p].index = p - 1

\* C8 witness: several intervals, the last one cut short at D
C8_Witness ==
    /\ Planned
    /\ Len(chunks) >= 3
    /\ chunks[Len(chunks)].duration < chunks[1].duration

\* some d in 30 .. 600 s is the duration of every chunk but the last, and the
\* last chunk is longer than 0 and no longer than d
UniformDurations ==
    \E d \in minChunkDuration .. maxChunkDuration :
        /\ \A p \in 1 .. Len(chunks) - 1 : chunks[p].duration = 2 * d
        /\ chunks[Len(chunks)].duration > 0
        /\ chunks[Len(chunks)].duration <= 2 * d

\* C9 as stated: every chunk but the last lasts exactly finalChunkDuration, in
\* [30, 600] s, the last lasts more than 0 and at most finalChunkDuration, and
\* every chunk lasts at most 600 s and at least min(30, D).
C9_Original ==
    Planned =>
        /\ UniformDurations
        /\ \A p \in 1 .. Len(chunks) :
               /\ chunks[p].duration <= 2 * 600
               /\ chunks[p].duration >= Min(2 * 30, file.durationHalves)

\* C9 amended: as C9, but at least min(30, D) holds for every chunk except a last
\* chunk that follows others; that one lasts anything in (0, finalChunkDuration].
C9_IntervalDurations ==
    Planned =>
        /\ UniformDurations
        /\ \A p \in 1 .. Len(chunks) :
               /\ chunks[p].duration <= 2 * 600
               /\ (p < Len(chunks) \/ Len(chunks) = 1) =>
                      chunks[p].duration >= Min(2 * 30, file.durationHalves)

\* C9 witness: the last of several chunks is shorter than 30 s
C9_Witness ==
    /\ Planned
    /\ Len(chunks) >= 2
    /\ chunks[Len(chunks)].duration < 2 * 30
    /\ chunks[1].duration > 2 * 30

(***************************************************************************)
(* The value of floor(CHUNK_TARGET_SIZE / (file.size / D)) stated by       *)
(* inequalities, in MiB and bytes below a MiB so that no product exceeds   *)
(* 2^31: q * size <= CHUNK_TARGET_SIZE * D.                                *)
(***************************************************************************)
TargetSeconds(size, halves, q) ==
    (CHUNK_TARGET_SIZE \div MiB) * halves - 2 * q * (size \div MiB)

QuotientAtLeast(size, halves, q) ==
    (2 * q * (size % MiB) + MiB - 1) \div MiB <= TargetSeconds(size, halves, q)

QuotientIs(size, halves, q) ==
    /\ (2 * q * (size % MiB)) % MiB = 0
    /\ (2 * q * (size % MiB)) \div MiB = TargetSeconds(size, halves, q)

\* floor(CHUNK_TARGET_SIZE / (size / D)) >= q, for q in 31 .. 600
FloorAtLeast(size, halves, q) ==
    /\ QuotientAtLeast(size, halves, q)
    /\ QuotientIs(size, halves, q) => ~QuotientBelow(size, halves, q)

\* c = clamp(floor(CHUNK_TARGET_SIZE / (size / D)), 30, 600)
IsClampedFloor(size, halves, c) ==
    /\ c \in 30 .. 600
    /\ c = 30 \/ FloorAtLeast(size, halves, c)
    /\ c = 600 \/ ~FloorAtLeast(size, halves, c + 1)

\* D <= clamp(floor(CHUNK_TARGET_SIZE / (size / D)), 30, 600)
WithinOneChunk(size, halves) ==
    \/ halves <= 2 * 30
    \/ halves <= 2 * 600 /\ FloorAtLeast(size, halves, (halves + 1) \div 2)

EstimateAtMost(size, halves, d, mib) ==
    (d * (size % MiB) + MiB - 1) \div MiB <= mib * halves - d * (size \div MiB)

\* C11: every chunk's estimated encoded size, chunk duration x file.size / D,
\* is at most 20 MiB, unless floor(20 MiB / (file.size / D)) is below 30 s
\* and the chunk duration was raised to the 30 s minimum.
C11_EstimateWithinTarget ==
    Planned /\ EstimateAtMost(file.size, file.durationHalves, 2 * 30, 20) =>
        \A p \in DOMAIN chunks :
            EstimateAtMost(file.size, file.durationHalves, chunks[p].duration, 20)

\* C11 witness: several chunks of more than 30 s, each estimated above 19 MiB
C11_Witness ==
    /\ Planned
    /\ Len(chunks) >= 3
    /\ chunks[1].duration > 2 * minChunkDuration
    /\ \A p \in DOMAIN chunks :
           ~EstimateAtMost(file.size, file.durationHalves, chunks[p].duration, 19)

\* C12: the assembled transcript is the chunk texts in index order, each one
\* trimmed, joined by exactly one space, with no blank at either end.
C12_JoinFormatting ==
    Assembled =>
        /\ transcript.text =
               Join([p \in 1 .. Len(transcriptions) |-> Trim(transcriptions[p])],
                    <<" ">>)
        /\ transcript.text = Trim(transcript.text)

\* every slot of transcriptions has been written
AllFilled == \A p \in DOMAIN transcriptions : slotWrites[p] = 1

\* C13: when every awaited operation settles, a processAudio call on the split
\* path leads to the transcript assembled from completely filled slots or to
\* the failure of the operation, and to isProcessing false at the end.
C13_EventualOutcome ==
    /\ splitCalls > 0 ~> ((Assembled /\ AllFilled) \/ alerts > 0)
    /\ splitCalls > 0 ~> (pc = "done" /\ ~isProcessing)

\* C13 witness: a call on the split path ended after two batches, all slots
\* filled, the transcript assembled and summarized
C13_Witness ==
    /\ splitCalls > 0
    /\ Len(chunks) > BATCH_SIZE
    /\ Assembled /\ AllFilled
    /\ pc = "done" /\ ~isProcessing /\ alerts = 0

Last(s) == s[Len(s)]

Succeeded == {c \in DOMAIN request : request[c] = "ok"}

\* what holds of the counter and of the reported counts in every state
ProgressState ==
    /\ completedCount = Cardinality(Succeeded)
    /\ \A k \in DOMAIN reported : reported[k] <= Len(chunks)
    /\ \A k \in 1 .. Len(reported) - 1 : reported[k] <= reported[k + 1]
    /\ reported # <<>> => Last(reported) = completedCount
    /\ pc = "transcribing" => processingText = Progress(completedCount, Len(chunks))
    /\ Assembled =>
           /\ completedCount = Len(chunks)
           /\ chunks # <<>> => Last(reported) = Len(chunks)

\* what holds of every step: a successful completion counts one and reports the
\* new count at once, nothing else changes the counter, and the message at the
\* beginning of a batch reports the batch's start index
ProgressStep ==
    /\ completedCount' # completedCount =>
           /\ completedCount' = completedCount + 1
           /\ Cardinality(Succeeded') = Cardinality(Succeeded) + 1
           /\ Len(reported') > Len(reported)
           /\ reported'[Len(reported) + 1] = completedCount'
           /\ SubSeq(reported', 1, Len(reported)) = reported
    /\ Succeeded' # Succeeded => completedCount' = completedCount + 1
    /\ (pc' = "transcribing" /\ (pc = "decoding" \/ batchStart' # batchStart)) =>
           /\ Last(reported') = batchStart'
           /\ completedCount' = batchStart'
           /\ processingText' = Progress(batchStart', Len(chunks'))

\* C14: completedCount goes up by exactly 1 at each successful chunk completion
\* and a progress message with the new count follows at once; the reported
\* count never decreases, never exceeds chunks.length, is the batch start index
\* when a batch begins and chunks.length when the last batch has completed.
C14_ProgressCounter == [](ProgressState) /\ [][ProgressStep]_vars

\* C14 witness: two batches completed, 0 .. 10 reported in the first, 10 again
\* as the second begins, then 11
C14_Witness ==
    /\ Assembled
    /\ Len(chunks) = BATCH_SIZE + 1
    /\ reported = [k \in 1 .. BATCH_SIZE + 3 |->
                      IF k <= BATCH_SIZE + 1 THEN k - 1 ELSE k - 2]

Failed == {c \in DOMAIN request : request[c] = "failed"}

\* C15: no chunk's transcription request is sent more than once, when the
\* transcription succeeds exactly one was sent for every chunk, and once a
\* request has failed no request is sent any more.
C15_NoRetry ==
    /\ [](/\ DOMAIN issued = DOMAIN request
          /\ \A c \in DOMAIN issued :
                 /\ issued[c] <= 1
                 /\ issued[c] = 0 <=> request[c] = "none"
          /\ Assembled =>
                 /\ DOMAIN issued = 0 .. Len(chunks) - 1
                 /\ \A c \in DOMAIN issued : issued[c] = 1)
    /\ [][Failed # {} => issued' = issued]_vars

\* C15 witness: the first of more than ten chunks failed, the other nine of its
\* batch succeeded, and no request was sent for the chunks of the second batch
C15_Witness ==
    /\ Len(chunks) > BATCH_SIZE
    /\ Failed = {0}
    /\ Succeeded = 1 .. BATCH_SIZE - 1
    /\ \A c \in DOMAIN issued : issued[c] = IF c < BATCH_SIZE THEN 1 ELSE 0

\* C16: when the decoded duration is 0 or less, splitAudioFile does not return
\* a chunk list (it fails with an error).
C16_InvalidDurationRejected ==
    file.decodable /\ file.durationHalves <= 0 => pc # "returned"

\* s = floor(t * rate) for a time of `halves` half seconds
IsFloorOfSamples(s, halves, rate) ==
    2 * s <= halves * rate /\ halves * rate < 2 * (s + 1)

C18_DecodeFailureMessage ==
    (pc = "done" /\ splitCalls > 0 /\ ~file.decodable) =>
        /\ alerts = 1 /\ ~isProcessing /\ minutesData = "null"
        /\ alertText.formats = {"MP3", "M4A", "WAV", "WebM"}

\* C19: whatever the interleaving of concurrent requests, the text a request
\* is answered with is the transcription of the bytes it uploaded, and no
\* other request writes or removes the temp file a request is using.
C19_RequestIsolation ==
    \A r \in Requests :
        /\ handler[r].response.status = 200 =>
               handler[r].response.text = Transcribe(Bytes(r))
        /\ handler[r].pc \in Using => handler[r].sent \in {NoBytes, Bytes(r)}
        /\ ~handler[r].disturbed

\* the input of the scenario: 40 MiB, 600 s, one channel, 16000 Hz
ScenarioFile ==
    /\ file.size = 40 * 1024 * 1024
    /\ file.durationHalves = 2 * 600
    /\ file.numberOfChannels = 1
    /\ file.sampleRate = 16000
    /\ file.decodable

\* C20: a 40 MiB, 600 s, single-channel, 16000 Hz input is split into exactly
\* 2 chunks, covering [0, 300) and [300, 600) seconds.
C20_PlanScenario ==
    (ScenarioFile /\ pc = "returned") =>
        /\ Len(chunks) = 2
        /\ chunks[1].startTime = 0
        /\ chunks[1].startTime + chunks[1].duration = 2 * 300
        /\ chunks[2].startTime = 2 * 300
        /\ chunks[2].startTime + chunks[2].duration = 2 * 600
        /\ chunks[1].startSample = 0
        /\ chunks[1].endSample = 300 * 16000
        /\ chunks[2].startSample = 300 * 16000
        /\ chunks[2].endSample = 600 * 16000

\* C20 witness: splitAudioFile has returned two chunks for the scenario's input
C20_Witness == ScenarioFile /\ pc = "returned" /\ Len(chunks) = 2

Uint16At(w, offset) == w[offset + 1] + 256 * w[offset + 2]

Uint32At(w, offset) ==
    w[offset + 1] + 256 * w[offset + 2] + 65536 * w[offset + 3]
        + 16777216 * w[offset + 4]

Int16At(w, offset) ==
    IF Uint16At(w, offset) >= 32768 THEN Uint16At(w, offset) - 65536
    ELSE Uint16At(w, offset)

\* the sample values of one step of the 16-bit scale (1/32768)
Step16 == SampleUnit \div 32768

\* the positions of the samples of the buffer: <<channel, frame>>, from 0
Positions ==
    (0 .. buffer.numberOfChannels - 1) \X (0 .. buffer.length - 1)

\* the sample the buffer holds at a position
Original(p) == buffer.channelData[p[1] + 1][p[2] + 1]

\* the 16-bit integer stored for a position
Stored(p) ==
    Int16At(wav, headerLength + bytesPerSample * (p[2] * buffer.numberOfChannels + p[1]))

\* how far the value read back is from the original
RoundTripError(p) == Abs(Original(p) - Stored(p) * Step16)

InRange(p) == Original(p) \in -SampleUnit .. SampleUnit

SameShape ==
    /\ Uint16At(wav, 22) = buffer.numberOfChannels
    /\ Uint32At(wav, 24) = buffer.sampleRate
    /\ Len(wav) = headerLength + bytesPerSample * buffer.numberOfChannels * buffer.length

\* C22 as stated: every sample in [-1, 1] is read back within 1/32768 of the
\* original, with the same channel count and sample rate
C22_Original ==
    wav # <<>> =>
        /\ SameShape
        /\ \A p \in Positions : InRange(p) => RoundTripError(p) <= Step16

\* C22 (amended): every sample in [-1, 1] is read back within less than 2/32768
\* of the original, a negative one within less than 1/32768, with the same
\* channel count and sample rate
C22_RoundTrip ==
    wav # <<>> =>
        /\ SameShape
        /\ \A p \in Positions :
              InRange(p) =>
                  /\ RoundTripError(p) < 2 * Step16
                  /\ Original(p) < 0 => RoundTripError(p) < Step16

\* a positive sample read back more than 1/32768 below the original
C22_Witness ==
    /\ wav # <<>>
    /\ \E p \in Positions :
          /\ InRange(p)
          /\ Original(p) > 0
          /\ RoundTripError(p) > Step16

\* a sample limited to [-1, 1]
Clamped(p) ==
    IF Original(p) > SampleUnit THEN SampleUnit
    ELSE IF Original(p) < -SampleUnit THEN -SampleUnit
    ELSE Original(p)

\* what the limited sample exceeds m steps of the 16-bit scale by
Excess(p, m) == Clamped(p) - m * Step16

\* m is 32768 times a negative sample, the fraction cut off toward zero
IsScaledNegative(p, m) == Excess(p, m) \in -(Step16 - 1) .. 0

\* m is 32767 times a sample that is not negative, the fraction cut off:
\* m <= 32767 x < m + 1, where 32767 x = 32768 x - x
IsScaledPositive(p, m) ==
    /\ Excess(p, m) \in 0 .. 2 * Step16 - 1
    /\ Excess(p, m) * 32768 >= Clamped(p)
    /\ (Excess(p, m) - Step16) * 32768 < Clamped(p)

\* C23: the two bytes written for a sample are, least significant first, the
\* signed 16-bit integer that is the sample limited to [-1, 1] times 32768 if
\* negative and times 32767 otherwise, the fraction cut off toward zero; that
\* integer is in -32768 .. 32767, so nothing wraps around
C23_SampleConversion ==
    wav # <<>> =>
        \A p \in Positions :
            /\ Stored(p) \in -32768 .. 32767
            /\ IF Clamped(p) < 0 THEN IsScaledNegative(p, Stored(p))
               ELSE IsScaledPositive(p, Stored(p))
            /\ Clamped(p) = SampleUnit => Stored(p) = 32767
            /\ Clamped(p) = -SampleUnit => Stored(p) = -32768

\* a sample above 1.0 was written as 32767, one below -1.0 would be -32768
C23_Witness ==
    /\ wav # <<>>
    /\ \E p \in Positions : Original(p) > SampleUnit /\ Stored(p) = 32767
    /\ wav[headerLength + 1] = 255
    /\ wav[headerLength + 2] = 127

\* the four characters at an offset of the container
TagAt(w, offset) == [i \in 1 .. 4 |-> w[offset + i]]

\* C24: the blob is 44 + frames x channels x 2 bytes long and its header
\* agrees with it: payload length field = frames x channels x 2, RIFF size =
\* length - 8, block alignment = channels x 2, byte rate = sample rate x block
\* alignment, bit depth 16, format tag 1, channel count and sample rate those
\* of the source buffer
C24_SelfConsistentContainer ==
    wav # <<>> =>
        LET payload == buffer.length * buffer.numberOfChannels * 2
        IN  /\ Len(wav) = 44 + payload
            /\ \A i \in 1 .. Len(wav) : wav[i] \in 0 .. 255
            /\ TagAt(wav, 0) = <<82, 73, 70, 70>>
            /\ Uint32At(wav, 4) = Len(wav) - 8
            /\ TagAt(wav, 8) = <<87, 65, 86, 69>>
            /\ TagAt(wav, 12) = <<102, 109, 116, 32>>
            /\ Uint32At(wav, 16) = 16
            /\ Uint16At(wav, 20) = 1
            /\ Uint16At(wav, 22) = buffer.numberOfChannels
            /\ Uint32At(wav, 24) = buffer.sampleRate
            /\ Uint32At(wav, 28) = buffer.sampleRate * Uint16At(wav, 32)
            /\ Uint16At(wav, 32) = buffer.numberOfChannels * 2
            /\ Uint16At(wav, 34) = 16
            /\ TagAt(wav, 36) = <<100, 97, 116, 97>>
            /\ Uint32At(wav, 40) = payload

\* a stereo buffer of several frames at 44.1 kHz was encoded
C24_Witness ==
    /\ wav # <<>>
    /\ buffer.numberOfChannels = 2
    /\ buffer.length > 1
    /\ buffer.sampleRate = 44100
    /\ Uint32At(wav, 28) = 176400

\* C25: the sample ranges of consecutive chunks abut, the first starts at
\* sample 0 and the last ends at floor(duration x sampleRate), which is the
\* length of the decoded buffer: every sample is in exactly one chunk.
C25_SampleExactSeams ==
    pc = "returned" =>
        /\ chunks[1].startSample = 0
        /\ \A p \in 1 .. Len(chunks) - 1 :
               chunks[p].endSample = chunks[p + 1].startSample
        /\ chunks[Len(chunks)].endSample
               = endSampleAtDuration(file.length, file.sampleRate)
        /\ chunks[Len(chunks)].endSample = file.length

\* C26: once a processAudio call has finished (isProcessing is false again),
\* none of its chunk requests is in flight and no step changes transcriptions,
\* completedCount or processingText any more.
C26_NoEffectsAfterCompletion ==
    /\ [](pc = "done" => InFlight = {})
    /\ [][pc = "done" =>
              UNCHANGED <<transcriptions, completedCount, processingText>>]_vars

\* the temp file request r wrote is still in the directory
LeftBehind(r) ==
    /\ handler[r].tempFilePath \in DOMAIN tmpFiles
    /\ tmpFiles[handler[r].tempFilePath] = Bytes(r)

\* C28: when the handler of POST /api/transcribe has answered, with the text
\* or with an error, the temporary file it wrote has been deleted.
C28_TempFileCleanup ==
    \A r \in Requests : handler[r].pc = "responded" => ~LeftBehind(r)

\* C29: whenever splitAudioFile has returned or thrown, every AudioContext it
\* created has been closed.
C29_AudioContextRelease ==
    pc \in {"returned", "returned again", "threw"} =>
        audioContext.created > 0 /\ audioContext.closed = audioContext.created

\* C27: whatever the user does, at most one processAudio call is in progress
\* at any time: none begins while isProcessing is true or another call has
\* not finished.
C27_SingleOrchestration ==
    /\ [](running <= 1)
    /\ [][running' > running => ~isProcessing /\ running = 0]_vars

\* the recorders that are recording or paused
Active == {m \in DOMAIN recorders : recorders[m].state # "inactive"}

\* the timer intervals that are scheduled
Scheduled == {t \in DOMAIN intervals : intervals[t]}

\* C30: at most one recorder and one timer interval are active at any time,
\* and after stopRecording (isRecording is false) no recorder is recording or
\* paused and no timer interval is scheduled.
C30_CleanStop ==
    /\ Cardinality(Active) <= 1
    /\ Cardinality(Scheduled) <= 1
    /\ ~isRecording => Active = {} /\ Scheduled = {}
====
